---- MODULE Spec2Model ----
(***************************************************************************)
(* The check.bin codec: pack_checkbin.py (load_entries, pack_entries,      *)
(* main) and extract_checkbin.py (parse_entries, main).                    *)
(*                                                                         *)
(* Representation of the Python values:                                    *)
(*   bytes        a sequence of numbers 0..255                             *)
(*   str          a sequence of Unicode code points                        *)
(*   int          a pair [hi, lo] standing for hi * 65536 + lo with        *)
(*                lo in 0..65535 (Python ints are unbounded, the values of *)
(*                interest reach 2^32 and beyond)                          *)
(*   T | None     <<>> for None, <<v>> for a value v                       *)
(*   a call       [ok, value, error]: the returned value or the raised     *)
(*                exception                                                *)
(***************************************************************************)
EXTENDS Integers, Sequences, FiniteSets, TLC

\* ------------------------------------------------------------------------
\* Bounds of the model
\* ------------------------------------------------------------------------
MaxEntries == 2     \* longest entry list handed to pack_entries directly
MaxCount == 2       \* most slots in a buffer handed to parse_entries

\* ------------------------------------------------------------------------
\* Program constants
\* ------------------------------------------------------------------------
pack_ENTRY_SIZE == 260
extract_ENTRY_SIZE == 260

\* ------------------------------------------------------------------------
\* Python values
\* ------------------------------------------------------------------------
None == <<>>
Some(v) == <<v>>

Rep(c, n) == [i \in 1..n |-> c]

\* the Python int n, for n a number TLC can hold
PyInt(n) == [hi |-> n \div 65536, lo |-> n % 65536]
\* v * k + a on Python ints, k and a small naturals
PyMulAdd(v, k, a) ==
    LET t == (v.lo * k) + a
    IN  [hi |-> (v.hi * k) + (t \div 65536), lo |-> t % 65536]
PyAdd(x, y) ==
    LET t == x.lo + y.lo
    IN  [hi |-> x.hi + y.hi + (t \div 65536), lo |-> t % 65536]
IsU32(v) == v.hi >= 0 /\ v.hi < 65536

NoError == [kind |-> "none", got |-> PyInt(0), expected |-> PyInt(0), entry |-> <<>>]
Return(v) == [ok |-> TRUE, value |-> v, error |-> NoError]
Raise(kind, got, expected, entry) ==
    [ok |-> FALSE, value |-> <<>>,
     error |-> [kind |-> kind, got |-> got, expected |-> expected, entry |-> entry]]

\* value.to_bytes(4, "little"): OverflowError unless 0 <= value < 2^32
to_bytes(value) ==
    IF ~IsU32(value)
    THEN Raise("OverflowError", value, PyInt(0), <<>>)
    ELSE Return(<<value.lo % 256, value.lo \div 256, value.hi % 256, value.hi \div 256>>)

\* int.from_bytes(b, "little") for len(b) <= 4
from_bytes(b) ==
    LET at(i) == IF i <= Len(b) THEN b[i] ELSE 0
    IN  [hi |-> at(3) + (256 * at(4)), lo |-> at(1) + (256 * at(2))]

\* b"".join(value.to_bytes(4, "little") for value in values)
join_to_bytes(values) ==
    IF \E i \in 1..Len(values) : ~IsU32(values[i])
    THEN LET first == CHOOSE i \in 1..Len(values) :
                          /\ ~IsU32(values[i])
                          /\ \A j \in 1..(i - 1) : IsU32(values[j])
         IN  to_bytes(values[first])
    ELSE Return([i \in 1..(4 * Len(values)) |->
                    to_bytes(values[((i - 1) \div 4) + 1]).value[((i - 1) % 4) + 1]])

\* data[start:stop] on bytes (0-based, stop exclusive, clamped to the length)
Slice(data, start, stop) ==
    LET hi == IF stop < Len(data) THEN stop ELSE Len(data)
    IN  IF start >= hi THEN <<>> ELSE [i \in 1..(hi - start) |-> data[start + i]]

\* ------------------------------------------------------------------------
\* UTF-8: str.encode("utf-8") and bytes.decode("utf-8", errors="replace")
\* ------------------------------------------------------------------------
IsSurrogate(c) == c >= 55296 /\ c <= 57343

utf8_char(c) ==
    IF c < 128 THEN <<c>>
    ELSE IF c < 2048 THEN <<192 + (c \div 64), 128 + (c % 64)>>
    ELSE IF c < 65536
         THEN <<224 + (c \div 4096), 128 + ((c \div 64) % 64), 128 + (c % 64)>>
         ELSE <<240 + (c \div 262144), 128 + ((c \div 4096) % 64),
                128 + ((c \div 64) % 64), 128 + (c % 64)>>

RECURSIVE utf8_range(_, _, _)
utf8_range(s, lo, hi) ==
    IF lo > hi THEN <<>>
    ELSE IF lo = hi THEN utf8_char(s[lo])
    ELSE LET mid == (lo + hi) \div 2
         IN  utf8_range(s, lo, mid) \o utf8_range(s, mid + 1, hi)

\* entry.encode("utf-8"): UnicodeEncodeError on a lone surrogate
str_encode(s) ==
    IF \E i \in 1..Len(s) : IsSurrogate(s[i])
    THEN Raise("UnicodeEncodeError", PyInt(0), PyInt(0), s)
    ELSE Return(utf8_range(s, 1, Len(s)))

\* number of continuation bytes a lead byte announces (0: ASCII, -1: invalid lead)
Utf8Need(b0) ==
    IF b0 < 128 THEN 0
    ELSE IF b0 >= 194 /\ b0 <= 223 THEN 1
    ELSE IF b0 >= 224 /\ b0 <= 239 THEN 2
    ELSE IF b0 >= 240 /\ b0 <= 244 THEN 3
    ELSE -1

\* is x acceptable as the k-th continuation byte after lead byte b0
Utf8ContOk(b0, k, x) ==
    IF k > 1 THEN x >= 128 /\ x <= 191
    ELSE IF b0 = 224 THEN x >= 160 /\ x <= 191
    ELSE IF b0 = 237 THEN x >= 128 /\ x <= 159
    ELSE IF b0 = 240 THEN x >= 144 /\ x <= 191
    ELSE IF b0 = 244 THEN x >= 128 /\ x <= 143
    ELSE x >= 128 /\ x <= 191

\* one step of the decoder at position i: the code point produced and the
\* bytes consumed; an ill-formed or truncated sequence gives U+FFFD for its
\* longest well-formed prefix
Utf8Step(b, i) ==
    LET b0 == b[i]
        need == Utf8Need(b0)
        good(k) == i + k <= Len(b) /\ Utf8ContOk(b0, k, b[i + k])
        got == IF need >= 1 /\ good(1)
               THEN IF need >= 2 /\ good(2)
                    THEN IF need >= 3 /\ good(3) THEN 3 ELSE 2
                    ELSE 1
               ELSE 0
    IN  IF need = -1 THEN [cp |-> 65533, adv |-> 1]
        ELSE IF got < need THEN [cp |-> 65533, adv |-> got + 1]
        ELSE IF need = 0 THEN [cp |-> b0, adv |-> 1]
        ELSE IF need = 1 THEN [cp |-> ((b0 - 192) * 64) + (b[i + 1] - 128), adv |-> 2]
        ELSE IF need = 2
             THEN [cp |-> ((b0 - 224) * 4096) + ((b[i + 1] - 128) * 64) + (b[i + 2] - 128),
                   adv |-> 3]
             ELSE [cp |-> ((b0 - 240) * 262144) + ((b[i + 1] - 128) * 4096)
                          + ((b[i + 2] - 128) * 64) + (b[i + 3] - 128),
                   adv |-> 4]

\* the decoder's loop, run for at most k code points from position i
RECURSIVE decode_steps(_, _, _, _)
decode_steps(b, i, acc, k) ==
    IF k = 0 \/ i > Len(b) THEN [i |-> i, acc |-> acc]
    ELSE LET st == Utf8Step(b, i)
             out == Append(acc, st.cp)
         IN  IF Len(out) > 0 THEN decode_steps(b, i + st.adv, out, k - 1)
             ELSE [i |-> i, acc |-> acc]

\* the decoder's loop from position i to the end, sixteen code points at a time
RECURSIVE decode_from(_, _, _)
decode_from(b, i, acc) ==
    IF i > Len(b) THEN acc
    ELSE LET r == decode_steps(b, i, <<>>, 16)
         IN  IF r.i > i THEN decode_from(b, r.i, acc \o r.acc) ELSE acc

\* b.decode("utf-8", errors="replace")
bytes_decode(b) == decode_from(b, 1, <<>>)

\* mutant of split_nul: chunk.rstrip(b"\x00"), the trailing zero bytes removed
split_nul_rstrip(chunk) ==
    IF \A i \in 1..Len(chunk) : chunk[i] = 0 THEN <<>>
    ELSE LET last == CHOOSE i \in 1..Len(chunk) :
                         /\ chunk[i] # 0
                         /\ \A j \in (i + 1)..Len(chunk) : chunk[j] = 0
         IN  Slice(chunk, 0, last)

\* chunk.split(b"\x00", 1)[0]: the bytes before the first zero byte
split_nul(chunk) ==
    IF \A i \in 1..Len(chunk) : chunk[i] # 0 THEN chunk
    ELSE LET z == CHOOSE i \in 1..Len(chunk) :
                      /\ chunk[i] = 0
                      /\ \A j \in 1..(i - 1) : chunk[j] # 0
         IN  Slice(chunk, 0, z - 1)

\* mutant of ljust: no padding at all
ljust_none(encoded, width) == encoded

\* mutant of ljust: the default fill byte of ljust, a space
ljust_space(encoded, width) ==
    IF Len(encoded) >= width THEN encoded
    ELSE [i \in 1..width |-> IF i <= Len(encoded) THEN encoded[i] ELSE 32]

\* encoded.ljust(width, b"\x00")
ljust(encoded, width) ==
    IF Len(encoded) >= width THEN encoded
    ELSE [i \in 1..width |-> IF i <= Len(encoded) THEN encoded[i] ELSE 0]

\* ------------------------------------------------------------------------
\* pack_checkbin.pack_entries
\* ------------------------------------------------------------------------
\* mutant of too_long: the bound tested with >=
too_long_ge(encoded) == Len(encoded) >= pack_ENTRY_SIZE

\* line 70: len(encoded) > ENTRY_SIZE
too_long(encoded) == Len(encoded) > pack_ENTRY_SIZE

\* the loop over entries (lines 67-73), body accumulated slot by slot
RECURSIVE pack_body(_, _, _)
pack_body(entries, idx, body) ==
    IF idx > Len(entries) THEN Return(body)
    ELSE LET encoded == str_encode(entries[idx])
         IN  IF ~encoded.ok THEN encoded
             ELSE IF too_long(encoded.value)
                  THEN Raise("EntryTooLong", PyInt(Len(encoded.value)), PyInt(0),
                             entries[idx])
                  ELSE pack_body(entries, idx + 1,
                                 body \o ljust(encoded.value, pack_ENTRY_SIZE))

\* mutant of resolve_metadata: absent metadata taken as the empty list
resolve_metadata_empty(entries, metadata) ==
    IF metadata = None THEN <<>> ELSE metadata[1]

\* the metadata used for the trailer (lines 75-76)
resolve_metadata(entries, metadata) ==
    IF metadata = None THEN Rep(PyInt(0), Len(entries)) ELSE metadata[1]

\* mutant of pack_header: the count written before the three header values
pack_header_count_first(entries, header) ==
    LET hdr == join_to_bytes(header)
    IN  IF ~hdr.ok THEN hdr
        ELSE Return(to_bytes(PyInt(Len(entries))).value \o hdr.value)

\* lines 64-65: the three header values, then len(entries)
pack_header(entries, header) ==
    LET hdr == join_to_bytes(header)
    IN  IF ~hdr.ok THEN hdr
        ELSE Return(hdr.value \o to_bytes(PyInt(Len(entries))).value)

pack_entries(entries, header, metadata) ==
    LET header_bytes == pack_header(entries, header)
    IN  IF ~header_bytes.ok THEN header_bytes
        ELSE
        LET body == pack_body(entries, 1, <<>>)
        IN  IF ~body.ok THEN body
            ELSE
            LET md == resolve_metadata(entries, metadata)
            IN  IF Len(md) # Len(entries)
                THEN Raise("MetadataCountMismatch", PyInt(Len(md)),
                           PyInt(Len(entries)), <<>>)
                ELSE LET trailer == join_to_bytes(md)
                     IN  IF ~trailer.ok THEN trailer
                         ELSE Return(header_bytes.value \o body.value \o trailer.value)

\* ------------------------------------------------------------------------
\* extract_checkbin.parse_entries
\* ------------------------------------------------------------------------
\* mutant of expected_size_of: the trailer left out of the expected size
expected_size_without_trailer(count) == PyMulAdd(count, extract_ENTRY_SIZE, 16)

\* line 33: expected_size = 16 + count * ENTRY_SIZE + count * 4
expected_size_of(count) ==
    PyAdd(PyMulAdd(count, extract_ENTRY_SIZE, 16), PyMulAdd(count, 4, 0))

parse_entries(data) ==
    IF Len(data) < 16
    THEN Raise("FileTooSmall", PyInt(Len(data)), PyInt(16), <<>>)
    ELSE
    LET header == [k \in 1..4 |-> from_bytes(Slice(data, 4 * (k - 1), 4 * k))]
        count == header[4]
        expected_size == expected_size_of(count)
    IN  IF PyInt(Len(data)) # expected_size
        THEN Raise("UnexpectedFileSize", PyInt(Len(data)), expected_size, <<>>)
        ELSE
        LET n == (count.hi * 65536) + count.lo
            entries == [idx \in 1..n |->
                LET start == 16 + ((idx - 1) * extract_ENTRY_SIZE)
                    chunk == Slice(data, start, start + extract_ENTRY_SIZE)
                IN  bytes_decode(split_nul(chunk))]
            trailer_start == 16 + (n * extract_ENTRY_SIZE)
            trailer == Slice(data, trailer_start, Len(data))
        IN  IF Len(trailer) # n * 4
            THEN Raise("UnexpectedTrailerSize", PyInt(Len(trailer)), PyInt(n * 4), <<>>)
            ELSE Return([header |-> [magic |-> header[1], version |-> header[2],
                                     flags |-> header[3], count |-> header[4]],
                         entries |-> entries,
                         metadata |-> [k \in 1..(Len(trailer) \div 4) |->
                                          from_bytes(Slice(trailer, 4 * (k - 1), 4 * k))]])

\* ------------------------------------------------------------------------
\* JSON values, as json.loads returns them and json.dumps takes them
\* ------------------------------------------------------------------------
JNull == [t |-> "null", items |-> <<>>, s |-> <<>>, n |-> PyInt(0)]
JStr(s) == [t |-> "str", items |-> <<>>, s |-> s, n |-> PyInt(0)]
JInt(n) == [t |-> "int", items |-> <<>>, s |-> <<>>, n |-> n]
JList(items) == [t |-> "list", items |-> items, s |-> <<>>, n |-> PyInt(0)]
\* a dict: items are the [k, v] pairs in key order
JDict(items) == [t |-> "dict", items |-> items, s |-> <<>>, n |-> PyInt(0)]

HasKey(d, key) == \E i \in 1..Len(d.items) : d.items[i].k = key
GetKey(d, key) == d.items[CHOOSE i \in 1..Len(d.items) : d.items[i].k = key].v

\* decimal digits of a natural number
RECURSIVE Digits(_)
Digits(n) == IF n < 10 THEN <<48 + n>> ELSE Append(Digits(n \div 10), 48 + (n % 10))

\* str(item), for the items of the model's documents: a string is itself,
\* an int is its decimal text, null (None) is "None"
str_of(item) ==
    IF item.t = "str" THEN item.s
    ELSE IF item.t = "int"
         THEN IF item.n.hi < 0
              THEN <<45>> \o Digits(0 - ((item.n.hi * 65536) + item.n.lo))
              ELSE Digits((item.n.hi * 65536) + item.n.lo)
    ELSE <<78, 111, 110, 101>>

\* int(value), for the metadata values of the model's documents: an int is
\* itself, a string of decimal digits is its number, anything else raises
IsDigits(s) == Len(s) > 0 /\ \A i \in 1..Len(s) : s[i] >= 48 /\ s[i] <= 57
RECURSIVE DigitsValue(_, _)
DigitsValue(s, k) == IF k = 0 THEN 0 ELSE (10 * DigitsValue(s, k - 1)) + (s[k] - 48)
int_of(value) ==
    IF value.t = "int" THEN Return(value.n)
    ELSE IF value.t = "str" /\ IsDigits(value.s)
         THEN Return(PyInt(DigitsValue(value.s, Len(value.s))))
    ELSE IF value.t = "str"
         THEN Raise("ValueError", PyInt(0), PyInt(0), value.s)
         ELSE Raise("TypeError", PyInt(0), PyInt(0), <<>>)

\* ------------------------------------------------------------------------
\* str.lstrip, str.strip, str.splitlines
\* ------------------------------------------------------------------------
IsSpace(c) ==
    \/ c \in {9, 10, 11, 12, 13, 28, 29, 30, 31, 32, 133, 160, 5760}
    \/ (c >= 8192 /\ c <= 8202)
    \/ c \in {8232, 8233, 8239, 8287, 12288}
IsLineBreak(c) == c \in {10, 11, 12, 13, 28, 29, 30, 133, 8232, 8233}

RECURSIVE lstrip(_)
lstrip(s) == IF s # <<>> /\ IsSpace(Head(s)) THEN lstrip(Tail(s)) ELSE s
RECURSIVE rstrip(_)
rstrip(s) ==
    IF s # <<>> /\ IsSpace(s[Len(s)]) THEN rstrip(SubSeq(s, 1, Len(s) - 1)) ELSE s
strip(s) == rstrip(lstrip(s))

\* raw.splitlines(): the lines from position i on, one line at a time
RECURSIVE splitlines_from(_, _, _)
splitlines_from(raw, i, lines) ==
    IF i > Len(raw) THEN lines
    ELSE IF \A j \in i..Len(raw) : ~IsLineBreak(raw[j])
         THEN Append(lines, SubSeq(raw, i, Len(raw)))
         ELSE LET brk == CHOOSE j \in i..Len(raw) :
                             /\ IsLineBreak(raw[j])
                             /\ \A m \in i..(j - 1) : ~IsLineBreak(raw[m])
                  crlf == raw[brk] = 13 /\ brk < Len(raw) /\ raw[brk + 1] = 10
              IN  splitlines_from(raw, IF crlf THEN brk + 2 ELSE brk + 1,
                                  Append(lines, SubSeq(raw, i, brk - 1)))
splitlines(raw) == splitlines_from(raw, 1, <<>>)

\* ------------------------------------------------------------------------
\* pack_checkbin.load_entries
\* A document is [raw, json]: raw is the text of the file (for a JSON
\* document, the text up to its first bracket), json is what json.loads
\* makes of it: <<value>>, or <<>> when it raises JSONDecodeError.
\* ------------------------------------------------------------------------
json_loads(doc) ==
    IF doc.json = None THEN Raise("JSONDecodeError", PyInt(0), PyInt(0), <<>>)
    ELSE Return(doc.json[1])

\* [int(value) for value in metadata]
int_list(values) ==
    IF \E i \in 1..Len(values) : ~int_of(values[i]).ok
    THEN int_of(values[CHOOSE i \in 1..Len(values) :
                           /\ ~int_of(values[i]).ok
                           /\ \A j \in 1..(i - 1) : int_of(values[j]).ok])
    ELSE Return([i \in 1..Len(values) |-> int_of(values[i]).value])

\* mutant of check_entries: the empty list let through
check_entries_unchecked(entries, metadata) ==
    Return([entries |-> entries, metadata |-> metadata])

\* lines 54-56
check_entries(entries, metadata) ==
    IF entries = <<>>
    THEN Raise("NoEntries", PyInt(0), PyInt(0), <<>>)
    ELSE Return([entries |-> entries, metadata |-> metadata])

load_entries(doc) ==
    LET raw == doc.raw
        stripped == lstrip(raw)
    IN  IF stripped # <<>> /\ Head(stripped) \in {123, 91}
        THEN LET loaded == json_loads(doc)
             IN  IF ~loaded.ok THEN loaded
                 ELSE
                 LET top == loaded.value
                     metadata == IF top.t = "dict" /\ HasKey(top, "metadata")
                                 THEN GetKey(top, "metadata") ELSE JNull
                     payload == IF top.t # "dict" THEN top
                                ELSE IF HasKey(top, "entries") THEN GetKey(top, "entries")
                                ELSE IF HasKey(top, "paths") THEN GetKey(top, "paths")
                                ELSE top
                 IN  IF payload.t # "list"
                     THEN Raise("JsonNotList", PyInt(0), PyInt(0), <<>>)
                     ELSE
                     LET entries == [i \in 1..Len(payload.items) |->
                                        str_of(payload.items[i])]
                     IN  IF metadata.t = "null" THEN check_entries(entries, None)
                         ELSE IF metadata.t # "list"
                              THEN Raise("MetadataNotList", PyInt(0), PyInt(0), <<>>)
                              ELSE LET ints == int_list(metadata.items)
                                   IN  IF ~ints.ok THEN ints
                                       ELSE check_entries(entries, Some(ints.value))
        ELSE LET lines == splitlines(raw)
                 kept == SelectSeq([i \in 1..Len(lines) |-> strip(lines[i])],
                                   LAMBDA line : line # <<>>)
             IN  check_entries(kept, None)

\* json.dumps of the record parse_entries returns (extract main, line 73)
json_dumps(record) ==
    JDict(<<[k |-> "header",
             v |-> JDict(<<[k |-> "magic", v |-> JInt(record.header.magic)],
                           [k |-> "version", v |-> JInt(record.header.version)],
                           [k |-> "flags", v |-> JInt(record.header.flags)],
                           [k |-> "count", v |-> JInt(record.header.count)]>>)],
            [k |-> "entries",
             v |-> JList([i \in 1..Len(record.entries) |-> JStr(record.entries[i])])],
            [k |-> "metadata",
             v |-> JList([i \in 1..Len(record.metadata) |-> JInt(record.metadata[i])])]>>)

\* ------------------------------------------------------------------------
\* Inputs
\* ------------------------------------------------------------------------
MaxU32 == [hi |-> 65535, lo |-> 65535]
TwoTo32 == [hi |-> 65536, lo |-> 0]
DEFAULT_HEADER == <<PyInt(2008), PyInt(1), PyInt(7)>>

\* header triples: the default, the largest and mixed u32 values, a value
\* that does not fit in 32 bits
Headers ==
    {DEFAULT_HEADER,
     <<MaxU32, PyInt(258), PyInt(65536)>>,
     <<PyInt(2008), TwoTo32, PyInt(7)>>}

\* entry strings: "a", "", "a\0b", three multi-byte characters,
\* 260 bytes exactly, 260 characters that encode to 261 bytes, a lone surrogate
EntryStrings ==
    {<<97>>, <<>>, <<97, 0, 98>>, <<233, 8364, 128512>>,
     Rep(97, pack_ENTRY_SIZE),
     Rep(97, pack_ENTRY_SIZE - 1) \o <<233>>,
     <<55296>>}

SeqsUpTo(S, n) == UNION {[1..k -> S] : k \in 0..n}

EntryLists == SeqsUpTo(EntryStrings, MaxEntries)

\* metadata arguments: None, or m values for m up to one more than the
\* longest entry list: values at the top of the u32 range (the i-th being
\* 2^32 - i), or a negative value first (-1, 0, 1, ...)
MetadataArgs ==
    {None} \cup
    {Some([i \in 1..m |-> [hi |-> 65535, lo |-> 65536 - i]]) : m \in 0..(MaxEntries + 1)} \cup
    {Some([i \in 1..m |-> PyInt(i - 2)]) : m \in 1..(MaxEntries + 1)}

\* documents for the pack command
TextDoc(raw) == [raw |-> raw, json |-> None]
JsonDoc(lead, value) == [raw |-> lead, json |-> Some(value)]
Docs ==
    {TextDoc(<<97, 10, 98, 98, 10>>),
     TextDoc(<<32, 97, 32, 13, 10, 10, 9, 10, 98, 0, 98>>),
     TextDoc(<<>>),
     TextDoc(<<10, 32, 10>>),
     TextDoc(<<97, 10>> \o Rep(98, pack_ENTRY_SIZE + 1)),
     TextDoc(<<32, 91, 97>>),
     JsonDoc(<<91>>, JList(<<>>)),
     JsonDoc(<<91>>, JList(<<JStr(<<97>>), JInt(PyInt(12)), JStr(<<>>)>>)),
     JsonDoc(<<32, 123>>, JDict(<<>>)),
     JsonDoc(<<123>>, JDict(<<[k |-> "entries", v |-> JStr(<<97>>)]>>)),
     JsonDoc(<<123>>, JDict(<<[k |-> "paths", v |-> JList(<<JStr(<<97>>)>>)],
                              [k |-> "entries", v |-> JList(<<JStr(<<98, 98>>)>>)]>>)),
     JsonDoc(<<123>>, JDict(<<[k |-> "paths", v |-> JList(<<JStr(<<97>>), JStr(<<233>>)>>)],
                              [k |-> "metadata",
                               v |-> JList(<<JInt(PyInt(3)), JStr(<<49, 50>>)>>)]>>)),
     JsonDoc(<<123>>, JDict(<<[k |-> "entries", v |-> JList(<<JStr(<<97>>)>>)],
                              [k |-> "metadata", v |-> JNull]>>)),
     JsonDoc(<<123>>, JDict(<<[k |-> "entries", v |-> JList(<<JStr(<<97>>)>>)],
                              [k |-> "metadata", v |-> JList(<<>>)]>>)),
     JsonDoc(<<123>>, JDict(<<[k |-> "entries", v |-> JList(<<JStr(<<97>>)>>)],
                              [k |-> "metadata", v |-> JInt(PyInt(3))]>>)),
     JsonDoc(<<123>>, JDict(<<[k |-> "entries", v |-> JList(<<JStr(<<97>>)>>)],
                              [k |-> "metadata", v |-> JList(<<JStr(<<120>>)>>)]>>)),
     JsonDoc(<<123>>, JDict(<<[k |-> "entries", v |-> JList(<<JStr(<<97>>)>>)],
                              [k |-> "metadata", v |-> JList(<<JInt(PyInt(-1))>>)]>>)),
     JsonDoc(<<123>>, JDict(<<[k |-> "entries", v |-> JList(<<>>)],
                              [k |-> "metadata", v |-> JList(<<JInt(PyInt(3))>>)]>>)),
     JsonDoc(<<123>>, JDict(<<[k |-> "entries", v |-> JList(<<>>)],
                              [k |-> "metadata", v |-> JInt(PyInt(3))]>>)),
     JsonDoc(<<123>>, JDict(<<[k |-> "entries",
                               v |-> JList(<<JStr(Rep(97, pack_ENTRY_SIZE + 1))>>)],
                              [k |-> "metadata", v |-> JList(<<>>)]>>))}

\* the file --output names, before the pack command runs
OldFiles == {None, Some(<<1, 2, 3>>)}

\* text followed by zero bytes up to n bytes
ZeroPadded(text, n) == text \o Rep(0, n - Len(text))

\* 260-byte slots: "a" and three multi-byte characters; empty; 260 times
\* "a" (no zero byte); "a", zero, "b" (bytes after the first zero); a lone
\* continuation byte, 258 times "a" and a lead byte cut off by the end
SlotSet ==
    {ZeroPadded(<<97, 195, 169, 226, 130, 172, 240, 159, 152, 128>>, extract_ENTRY_SIZE),
     Rep(0, extract_ENTRY_SIZE),
     Rep(97, extract_ENTRY_SIZE),
     ZeroPadded(<<97, 0, 98>>, extract_ENTRY_SIZE),
     <<128>> \o Rep(97, extract_ENTRY_SIZE - 2) \o <<195>>}

RECURSIVE Flatten(_)
Flatten(ss) == IF ss = <<>> THEN <<>> ELSE Head(ss) \o Flatten(Tail(ss))

\* the first twelve bytes of a buffer
BufferTags ==
    {<<216, 7, 0, 0, 1, 0, 0, 0, 7, 0, 0, 0>>,
     <<255, 255, 255, 255, 2, 1, 0, 0, 0, 0, 1, 0>>}
\* the count field: 0 to one more than the most slots, and 65536
BufferCounts ==
    {<<c, 0, 0, 0>> : c \in 0..(MaxCount + 1)} \cup {<<0, 0, 1, 0>>}
\* t trailer values, the i-th being 2^32 - i
BufferTrailer(t) == Flatten([i \in 1..t |-> <<256 - i, 255, 255, 255>>])
BufferTails == {<<>>, <<0>>}

\* buffers for parse_entries: fewer than 16 bytes, or a 16-byte header
\* followed by any number of slots, trailer values and stray bytes,
\* whether or not they agree with the count field
Buffers ==
    {<<>>, Rep(7, 15)} \cup
    {tag \o cnt \o Flatten(slots) \o BufferTrailer(t) \o tail :
        tag \in BufferTags, cnt \in BufferCounts,
        slots \in SeqsUpTo(SlotSet, MaxCount),
        t \in 0..(MaxCount + 1), tail \in BufferTails}

\* ------------------------------------------------------------------------
\* State
\*   flow      what is run: "pack" (pack_checkbin main), "extract"
\*             (extract_checkbin main, then pack_entries on the record it
\*             parsed), "encode" (pack_entries called on a record, then
\*             parse_entries on the bytes it returned)
\*   pc        the next step: "load", "pack", "write", "read", "parse",
\*             "dump", "dumped", "done", "failed"
\*   error     the exception that ended the run, NoError if none
\* pack side: doc (the input file), header, entries, metadata, payload
\*   (the bytes pack_entries returned), outfile (the output file)
\* extract side: binfile (the input file), data, record (what parse_entries
\*   returned), to_file (--output given), outdoc (the output file), stdout
\* ------------------------------------------------------------------------
VARIABLES flow, pc, error, doc, header, entries, metadata, payload, outfile,
          binfile, data, record, to_file, outdoc, stdout

vars == <<flow, pc, error, doc, header, entries, metadata, payload, outfile,
          binfile, data, record, to_file, outdoc, stdout>>

packVars == <<doc, header, entries, metadata, payload, outfile>>
extractVars == <<binfile, data, record, to_file, outdoc, stdout>>

NoDoc == TextDoc(<<>>)

InitPack ==
    /\ flow = "pack" /\ pc = "load" /\ error = NoError
    /\ doc \in Docs /\ header \in Headers /\ outfile \in OldFiles
    /\ entries = <<>> /\ metadata = None /\ payload = None
    /\ binfile = <<>> /\ data = <<>> /\ record = None
    /\ to_file = FALSE /\ outdoc = None /\ stdout = None

InitEncode ==
    /\ flow = "encode" /\ pc = "pack" /\ error = NoError
    /\ entries \in EntryLists /\ header \in Headers /\ metadata \in MetadataArgs
    /\ doc = NoDoc /\ payload = None /\ outfile = None
    /\ binfile = <<>> /\ data = <<>> /\ record = None
    /\ to_file = FALSE /\ outdoc = None /\ stdout = None

InitExtract ==
    /\ flow = "extract" /\ pc = "read" /\ error = NoError
    /\ binfile \in Buffers /\ to_file \in BOOLEAN
    /\ data = <<>> /\ record = None /\ outdoc = None /\ stdout = None
    /\ doc = NoDoc /\ header = <<>> /\ entries = <<>> /\ metadata = None
    /\ payload = None /\ outfile = None

Init == InitPack \/ InitEncode \/ InitExtract

\* pack main, line 88: entries, metadata = load_entries(args.input)
LoadEntries ==
    /\ pc = "load"
    /\ LET r == load_entries(doc)
       IN  /\ pc' = IF r.ok THEN "pack" ELSE "failed"
           /\ error' = r.error
           /\ entries' = IF r.ok THEN r.value.entries ELSE entries
           /\ metadata' = IF r.ok THEN r.value.metadata ELSE metadata
    /\ UNCHANGED <<flow, doc, header, payload, outfile>>
    /\ UNCHANGED extractVars

\* pack main, line 89: payload = pack_entries(entries, tuple(args.header),
\* metadata); in the other flows the call a caller makes on a record
PackEntries ==
    /\ pc = "pack"
    /\ LET r == pack_entries(entries, header, metadata)
       IN  /\ pc' = IF ~r.ok THEN "failed"
                    ELSE IF flow = "pack" THEN "write"
                    ELSE IF flow = "encode" THEN "parse"
                    ELSE "done"
           /\ error' = r.error
           /\ payload' = IF r.ok THEN Some(r.value) ELSE payload
           /\ data' = IF r.ok /\ flow = "encode" THEN r.value ELSE data
    /\ UNCHANGED <<flow, doc, header, entries, metadata, outfile>>
    /\ UNCHANGED <<binfile, record, to_file, outdoc, stdout>>

\* mutant of WriteBytes: the output file is opened for writing before the
\* entries are loaded and packed, so a failed run leaves it empty
WriteBytesOpenedFirst ==
    /\ flow = "pack" /\ pc \in {"write", "failed"}
    /\ outfile' = IF pc = "write" THEN payload ELSE Some(<<>>)
    /\ pc' = "done"
    /\ UNCHANGED <<flow, error, doc, header, entries, metadata, payload>>
    /\ UNCHANGED extractVars

\* pack main, line 90: args.output.write_bytes(payload)
WriteBytes ==
    /\ pc = "write"
    /\ outfile' = payload
    /\ pc' = "done"
    /\ UNCHANGED <<flow, error, doc, header, entries, metadata, payload>>
    /\ UNCHANGED extractVars

\* extract main, line 70: data = args.input.read_bytes()
ReadBytes ==
    /\ pc = "read"
    /\ data' = binfile
    /\ pc' = "parse"
    /\ UNCHANGED <<flow, error, binfile, record, to_file, outdoc, stdout>>
    /\ UNCHANGED packVars

\* extract main, line 71: payload = parse_entries(data)
ParseEntries ==
    /\ pc = "parse"
    /\ LET r == parse_entries(data)
       IN  /\ pc' = IF ~r.ok THEN "failed"
                    ELSE IF flow = "extract" THEN "dump" ELSE "done"
           /\ error' = r.error
           /\ record' = IF r.ok THEN Some(r.value) ELSE record
    /\ UNCHANGED <<flow, binfile, data, to_file, outdoc, stdout>>
    /\ UNCHANGED packVars

\* extract main, lines 73-77: the JSON text goes to --output or to stdout
WriteOutput ==
    /\ pc = "dump"
    /\ LET output == json_dumps(record[1])
       IN  /\ outdoc' = IF to_file THEN Some(output) ELSE outdoc
           /\ stdout' = IF to_file THEN stdout ELSE Some(output)
    /\ pc' = "dumped"
    /\ UNCHANGED <<flow, error, binfile, data, record, to_file>>
    /\ UNCHANGED packVars

\* the record parse_entries returned is handed back to pack_entries:
\* pack_entries(d.entries, (d.magic, d.version, d.flags), d.metadata)
Reencode ==
    /\ pc = "dumped"
    /\ LET d == record[1]
       IN  /\ entries' = d.entries
           /\ header' = <<d.header.magic, d.header.version, d.header.flags>>
           /\ metadata' = Some(d.metadata)
    /\ pc' = "pack"
    /\ UNCHANGED <<flow, error, doc, payload, outfile>>
    /\ UNCHANGED extractVars

Next ==
    \/ LoadEntries
    \/ PackEntries
    \/ WriteBytes
    \/ ReadBytes
    \/ ParseEntries
    \/ WriteOutput
    \/ Reencode

Spec == Init /\ [][Next]_vars

\* ------------------------------------------------------------------------
\* Properties
\* ------------------------------------------------------------------------
\* pack_entries has been called and has returned or raised
AfterPack ==
    \/ flow = "encode" /\ pc # "pack"
    \/ flow = "pack" /\ (pc \in {"write", "done"} \/ (pc = "failed" /\ entries # <<>>))
    \/ flow = "extract" /\ (pc = "done" \/ (pc = "failed" /\ record # None))

\* parse_entries has been called and has returned or raised
AfterParse ==
    \/ flow = "extract" /\ pc \notin {"read", "parse"}
    \/ flow = "encode" /\ (pc = "done" \/ (pc = "failed" /\ payload # None))

\* the bytes a string takes in UTF-8, counted from its code points
Utf8Width(c) == IF c < 128 THEN 1 ELSE IF c < 2048 THEN 2 ELSE IF c < 65536 THEN 3 ELSE 4
RECURSIVE Utf8LenRange(_, _, _)
Utf8LenRange(s, lo, hi) ==
    IF lo > hi THEN 0
    ELSE IF lo = hi THEN Utf8Width(s[lo])
    ELSE Utf8LenRange(s, lo, (lo + hi) \div 2) + Utf8LenRange(s, ((lo + hi) \div 2) + 1, hi)
Utf8Len(s) == Utf8LenRange(s, 1, Len(s))

\* the inputs are of the types the data model gives them: header values
\* are unsigned 32-bit, entries are text that has a UTF-8 encoding
HeaderIsU32 == \A i \in 1..Len(header) : header[i].hi \in 0..65535
EntriesAreText ==
    \A i \in 1..Len(entries) : \A k \in 1..Len(entries[i]) :
        entries[i][k] < 55296 \/ entries[i][k] > 57343
EntriesFit == \A i \in 1..Len(entries) : Utf8Len(entries[i]) <= 260
MetadataIsU32 ==
    metadata # None => \A i \in 1..Len(metadata[1]) : metadata[1][i].hi \in 0..65535

\* the little-endian u32 bytes of an int
LittleEndian(v) == <<v.lo % 256, v.lo \div 256, v.hi % 256, v.hi \div 256>>

\* the i-th 260-byte slot and the i-th trailer value of a buffer of n slots
SlotAt(buf, i) == [k \in 1..260 |-> buf[16 + (260 * (i - 1)) + k]]
TrailerAt(buf, n, i) == [k \in 1..4 |-> buf[16 + (260 * n) + (4 * (i - 1)) + k]]

\* the count field of a buffer of at least 16 bytes, and the length it implies
DeclaredCount(buf) == buf[13] + (256 * buf[14]) + (65536 * buf[15]) + (16777216 * buf[16])
ExpectedLength(buf) == 16 + (260 * DeclaredCount(buf)) + (4 * DeclaredCount(buf))

\* the record handed to pack_entries is one the round-trip law covers
C1_Covered ==
    /\ flow = "encode"
    /\ HeaderIsU32 /\ EntriesAreText /\ EntriesFit /\ MetadataIsU32
    /\ metadata # None /\ Len(metadata[1]) = Len(entries)

\* C1: round trip. For every record whose header values and metadata values
\* are u32, whose entries each take at most 260 bytes of UTF-8 and whose
\* metadata has one value per entry, pack_entries succeeds and parse_entries
\* of its result returns the same magic, version and flags, count =
\* len(entries), the same entries and the same metadata, in order.
C1_RoundTrip ==
    (C1_Covered /\ pc \in {"done", "failed"}) =>
        /\ pc = "done"
        /\ record = Some([header |-> [magic |-> header[1], version |-> header[2],
                                      flags |-> header[3],
                                      count |-> PyInt(Len(entries))],
                          entries |-> entries,
                          metadata |-> metadata[1]])

\* C1 restricted to entries without a U+0000 character: the round trip
\* the code does satisfy
C1_RoundTripWithoutNul ==
    (\A i \in 1..Len(entries) : \A k \in 1..Len(entries[i]) : entries[i][k] # 0)
        => C1_RoundTrip
\* a round trip of two entries, one of exactly 260 bytes, one multi-byte
C1_RoundTripWithoutNulReached ==
    /\ C1_Covered /\ pc = "done" /\ Len(entries) = 2
    /\ Utf8Len(entries[1]) = 260 /\ entries[2] = <<233, 8364, 128512>>

\* C2: decode acceptance is a strict size equality. parse_entries fails
\* with the file-too-small error if len(data) < 16; otherwise, with count
\* the little-endian u32 at offset 12, it fails with the size error carrying
\* len(data) and 16 + 260*count + 4*count whenever len(data) differs from
\* that length (shorter or longer), and returns a record exactly when they
\* are equal, count = 0 included.
C2_StrictSize ==
    AfterParse =>
        IF Len(data) < 16
        THEN record = None /\ pc = "failed" /\ error.kind = "FileTooSmall"
        ELSE IF Len(data) # ExpectedLength(data)
             THEN /\ record = None /\ pc = "failed"
                  /\ error.kind = "UnexpectedFileSize"
                  /\ error.got = PyInt(Len(data))
                  /\ error.expected = PyInt(ExpectedLength(data))
             ELSE record # None
\* C2 witness: a buffer of one slot and one stray byte is rejected
C2_TrailingByteRejected ==
    /\ AfterParse /\ flow = "extract" /\ Len(data) = 16 + 264 + 1
    /\ DeclaredCount(data) = 1 /\ error.kind = "UnexpectedFileSize"

\* C3 as stated: pack_entries on an empty entry list fails with the
\* no-entries error and returns no bytes, whatever the header and metadata.
C3_EncoderRejectsEmpty ==
    (AfterPack /\ entries = <<>>) =>
        pc = "failed" /\ payload = None /\ error.kind = "NoEntries"

\* what load_entries reads from a document, leaving aside the check for an
\* empty list: no entry, and metadata that is absent or a list of ints
DocListsNoEntry(d) ==
    IF d.json = None
    THEN lstrip(d.raw) = <<>>
    ELSE LET top == d.json[1]
             listed == IF top.t # "dict" THEN top
                        ELSE IF HasKey(top, "entries") THEN GetKey(top, "entries")
                        ELSE IF HasKey(top, "paths") THEN GetKey(top, "paths")
                        ELSE top
             md == IF top.t = "dict" /\ HasKey(top, "metadata")
                   THEN GetKey(top, "metadata") ELSE JNull
         IN  /\ listed.t = "list" /\ listed.items = <<>>
             /\ \/ md.t = "null"
                \/ md.t = "list" /\ \A i \in 1..Len(md.items) : md.items[i].t = "int"

\* C3, amended: the empty entry list is rejected by load_entries, not by
\* pack_entries. The pack command given an input that lists no entry (its
\* metadata absent or a list of integers) fails in load_entries with the
\* no-entries error whatever the header, calls pack_entries never and
\* leaves the output file as it was; pack_entries is never called by the
\* pack command with an empty list. pack_entries itself, called with an
\* empty list and u32 header values, returns the 16-byte header with count
\* 0 when metadata is absent or empty and fails with the metadata count
\* error when metadata is not empty.
C3_EmptyRejectedByLoad ==
    /\ (flow = "pack" /\ pc # "load" /\ DocListsNoEntry(doc)) =>
           /\ pc = "failed" /\ error.kind = "NoEntries"
           /\ payload = None /\ outfile \in OldFiles
    /\ (flow = "pack" /\ pc \in {"pack", "write", "done"}) => entries # <<>>
    /\ (flow # "pack" /\ AfterPack /\ entries = <<>> /\ HeaderIsU32) =>
           IF metadata = None \/ metadata = Some(<<>>)
           THEN /\ payload # None
                /\ payload[1] = LittleEndian(header[1]) \o LittleEndian(header[2])
                                \o LittleEndian(header[3]) \o <<0, 0, 0, 0>>
           ELSE /\ payload = None /\ error.kind = "MetadataCountMismatch"
                /\ error.got = PyInt(Len(metadata[1])) /\ error.expected = PyInt(0)
\* C3 witness: the pack command fails on a JSON object that lists no entry
C3_EmptyRejectedByLoadReached ==
    /\ flow = "pack" /\ pc = "failed" /\ error.kind = "NoEntries"
    /\ doc.json # None /\ doc.json[1].t = "dict"
    /\ header # DEFAULT_HEADER /\ outfile = Some(<<1, 2, 3>>)

\* the least index of an entry whose UTF-8 encoding exceeds 260 bytes
FirstTooLong ==
    CHOOSE i \in 1..Len(entries) :
        /\ Utf8Len(entries[i]) > 260
        /\ \A j \in 1..(i - 1) : Utf8Len(entries[j]) <= 260

\* C4: entry length rejection boundary. With u32 header values and entries
\* that are text, pack_entries raises no entry-too-long error when every
\* entry takes at most 260 bytes of UTF-8, and an entry of exactly 260
\* bytes fills its slot with no padding; as soon as some entry takes 261
\* bytes or more it fails, returning nothing, with the entry-too-long error
\* of the lowest-index offending entry, carrying that entry and its encoded
\* length.
C4_LengthBoundary ==
    (AfterPack /\ HeaderIsU32 /\ EntriesAreText) =>
        IF \E i \in 1..Len(entries) : Utf8Len(entries[i]) >= 261
        THEN /\ pc = "failed" /\ payload = None
             /\ error.kind = "EntryTooLong"
             /\ error.entry = entries[FirstTooLong]
             /\ error.got = PyInt(Utf8Len(entries[FirstTooLong]))
        ELSE /\ error.kind # "EntryTooLong"
             /\ payload # None =>
                    \A i \in 1..Len(entries) :
                        Utf8Len(entries[i]) = 260 =>
                            SlotAt(payload[1], i) = str_encode(entries[i]).value
\* C4 witness: a 260-byte entry is accepted and the 261-byte entry after it
\* (260 characters) is the one reported
C4_SecondEntryTooLong ==
    /\ AfterPack /\ HeaderIsU32 /\ Len(entries) = 2
    /\ Utf8Len(entries[1]) = 260 /\ Utf8Len(entries[2]) = 261 /\ Len(entries[2]) = 260
    /\ error.kind = "EntryTooLong" /\ error.entry = entries[2]

\* C5: count derivation. In every buffer pack_entries returns, bytes 0..12
\* are the caller's magic, version and flags as little-endian u32, in that
\* order, and bytes 12..16 are len(entries) as little-endian u32.
C5_HeaderBytes ==
    payload # None =>
        /\ Len(payload[1]) >= 16
        /\ SubSeq(payload[1], 1, 12) =
               LittleEndian(header[1]) \o LittleEndian(header[2]) \o LittleEndian(header[3])
        /\ SubSeq(payload[1], 13, 16) =
               <<Len(entries) % 256, Len(entries) \div 256, 0, 0>>
\* C5 witness: a buffer returned for two entries and a header of large values
C5_HeaderBytesReached ==
    /\ payload # None /\ flow = "encode" /\ Len(entries) = 2
    /\ header = <<MaxU32, PyInt(258), PyInt(65536)>>

\* the metadata value written for entry i
ResolvedMetadata(i) == IF metadata = None THEN PyInt(0) ELSE metadata[1][i]

\* C6: size law. Every buffer pack_entries returns has length
\* 16 + 260*n + 4*n with n = len(entries): the 16-byte header, then for
\* each entry in order a 260-byte slot holding its UTF-8 bytes followed by
\* zero bytes, then for each entry in order its 4-byte metadata value.
C6_SizeLaw ==
    payload # None =>
        LET n == Len(entries) IN
        /\ Len(payload[1]) = 16 + (260 * n) + (4 * n)
        /\ \A i \in 1..n :
               LET slot == SlotAt(payload[1], i)
                   w == Utf8Len(entries[i])
               IN  /\ w <= 260
                   /\ SubSeq(slot, 1, w) = str_encode(entries[i]).value
                   /\ \A k \in (w + 1)..260 : slot[k] = 0
        /\ \A i \in 1..n :
               TrailerAt(payload[1], n, i) = LittleEndian(ResolvedMetadata(i))
\* C6 witness: a buffer of 544 bytes returned for two entries with metadata
C6_SizeLawReached ==
    /\ payload # None /\ flow = "encode" /\ Len(entries) = 2 /\ metadata # None
    /\ Utf8Len(entries[1]) = 260 /\ entries[2] = <<97>>
    /\ Len(payload[1]) = 544

\* C7 as stated: whenever metadata is present and its length differs from
\* len(entries), pack_entries fails with the metadata count error carrying
\* the supplied count and the entry count.
C7_MismatchAlwaysReported ==
    (AfterPack /\ HeaderIsU32 /\ EntriesAreText
        /\ metadata # None /\ Len(metadata[1]) # Len(entries)) =>
        /\ payload = None /\ error.kind = "MetadataCountMismatch"
        /\ error.got = PyInt(Len(metadata[1])) /\ error.expected = PyInt(Len(entries))

\* C7, amended: metadata is resolved after the entries have been encoded,
\* so the entry-too-long error comes first. With u32 header values and
\* every entry taking at most 260 bytes: when metadata is absent the call
\* succeeds and the trailer is len(entries) zero u32 values; when metadata
\* is present and its length differs from len(entries) the call fails with
\* the metadata count error carrying the supplied count and the entry
\* count; when it has len(entries) u32 values the call succeeds; and the
\* trailer of a successful result holds metadata[i] as little-endian u32 at
\* position i. Whatever the entries, a call with metadata present succeeds
\* only if len(metadata) = len(entries).
C7_MetadataResolution ==
    /\ (AfterPack /\ payload # None /\ metadata # None) =>
           Len(metadata[1]) = Len(entries)
    /\ (AfterPack /\ HeaderIsU32 /\ EntriesAreText /\ EntriesFit) =>
           LET n == Len(entries) IN
           IF metadata = None
           THEN /\ payload # None
                /\ Len(payload[1]) = 16 + (264 * n)
                /\ \A i \in 1..n : TrailerAt(payload[1], n, i) = <<0, 0, 0, 0>>
           ELSE IF Len(metadata[1]) # n
           THEN /\ payload = None /\ pc = "failed"
                /\ error.kind = "MetadataCountMismatch"
                /\ error.got = PyInt(Len(metadata[1]))
                /\ error.expected = PyInt(n)
           ELSE /\ MetadataIsU32 => payload # None
                /\ payload # None =>
                       \A i \in 1..n :
                           TrailerAt(payload[1], n, i) = LittleEndian(metadata[1][i])
\* C7 witness: three metadata values for two entries that fit
C7_MismatchReported ==
    /\ AfterPack /\ HeaderIsU32 /\ EntriesAreText /\ EntriesFit
    /\ Len(entries) = 2 /\ metadata # None /\ Len(metadata[1]) = 3
    /\ error.kind = "MetadataCountMismatch"

\* the length of the text of a slot: the bytes before its first zero byte
TextLen(slot) ==
    CHOOSE z \in 0..Len(slot) :
        /\ z = Len(slot) \/ slot[z + 1] = 0
        /\ \A j \in 1..z : slot[j] # 0

\* well-formed UTF-8: every byte is ASCII, or a lead byte followed by the
\* continuation bytes it announces, or one of those continuation bytes
Utf8SequenceAt(p, i) ==
    /\ Utf8Need(p[i]) >= 1
    /\ \A m \in 1..Utf8Need(p[i]) : i + m <= Len(p) /\ Utf8ContOk(p[i], m, p[i + m])
WellFormedUtf8(p) ==
    \A i \in 1..Len(p) :
        \/ p[i] < 128
        \/ Utf8SequenceAt(p, i)
        \/ /\ p[i] >= 128 /\ p[i] <= 191
           /\ \E k \in 1..3 : i - k >= 1 /\ Utf8Need(p[i - k]) >= k /\ Utf8SequenceAt(p, i - k)

\* C8: decode is total over size-valid buffers. For every buffer of at
\* least 16 bytes whose length is 16 + 260*count + 4*count, parse_entries
\* returns a record and raises nothing, the trailer-size error included;
\* it returns count entries; each entry is the text of its slot before the
\* first zero byte (all 260 bytes if there is none): it holds no U+0000,
\* it is exactly the decoded text when that text is well-formed UTF-8, and
\* it holds a replacement character when it is not.
C8_DecodeTotal ==
    (AfterParse /\ Len(data) >= 16 /\ Len(data) = ExpectedLength(data)) =>
        /\ record # None
        /\ error.kind \notin {"FileTooSmall", "UnexpectedFileSize", "UnexpectedTrailerSize"}
        /\ Len(record[1].entries) = DeclaredCount(data)
        /\ Len(record[1].metadata) = DeclaredCount(data)
        /\ \A i \in 1..DeclaredCount(data) :
               LET slot == SlotAt(data, i)
                   text == SubSeq(slot, 1, TextLen(slot))
                   entry == record[1].entries[i]
               IN  /\ \A k \in 1..Len(entry) : entry[k] # 0
                   /\ IF WellFormedUtf8(text)
                      THEN str_encode(entry) = Return(text)
                      ELSE \E k \in 1..Len(entry) : entry[k] = 65533
\* C8 witness: a slot without a zero byte and with two ill-formed bytes is
\* decoded to 260 characters, two of them replacement characters
C8_InvalidBytesDecoded ==
    /\ AfterParse /\ flow = "extract" /\ record # None /\ DeclaredCount(data) = 2
    /\ TextLen(SlotAt(data, 1)) = 260 /\ ~WellFormedUtf8(SlotAt(data, 1))
    /\ record[1].entries[1] = <<65533>> \o Rep(97, 258) \o <<65533>>
    /\ record[1].entries[2] = <<97>>

\* one step of a run, for C9
C9_Step ==
    /\ (pc = "pack" /\ pc' = "failed") => payload' = None
    /\ (pc = "parse" /\ pc' = "failed") => record' = None
    /\ outfile' # outfile =>
           /\ flow = "pack" /\ pc = "write" /\ error = NoError
           /\ entries # <<>> /\ payload # None
           /\ Len(payload[1]) = 16 + (264 * Len(entries))
           /\ outfile' = payload
    /\ (outdoc' # outdoc \/ stdout' # stdout) =>
           /\ flow = "extract" /\ pc = "dump" /\ error = NoError /\ record # None
           /\ Len(record[1].entries) = DeclaredCount(data)
           /\ Len(record[1].metadata) = DeclaredCount(data)
    /\ pc' = "failed" => (outfile' = outfile /\ outdoc' = outdoc /\ stdout' = stdout)

\* C9: all-or-nothing. A failing pack_entries returns no buffer and a
\* failing parse_entries no record; the pack command writes its output
\* file only from the step after load_entries and pack_entries have both
\* returned, and then writes the complete buffer; the extract command
\* writes its output only after parse_entries has returned a full record;
\* a run that fails leaves every output as it was.
C9_AllOrNothing == [][C9_Step]_vars
\* C9 witness: the pack command has failed in pack_entries and the file
\* that was there is intact
C9_FailedPackLeavesFile ==
    /\ flow = "pack" /\ pc = "failed" /\ error.kind = "EntryTooLong"
    /\ payload = None /\ outfile = Some(<<1, 2, 3>>)

\* a canonical buffer: one parse_entries accepts, in which every slot is
\* well-formed UTF-8 text without a zero byte, followed by zero bytes only
Canonical(buf) ==
    /\ Len(buf) >= 16 /\ Len(buf) = ExpectedLength(buf)
    /\ \A i \in 1..DeclaredCount(buf) :
           LET slot == SlotAt(buf, i)
               z == TextLen(slot)
           IN  /\ \A k \in (z + 1)..260 : slot[k] = 0
               /\ WellFormedUtf8(SubSeq(slot, 1, z))

\* C10: reverse round trip. For every canonical buffer b, with d =
\* parse_entries(b), pack_entries(d.entries, (d.magic, d.version, d.flags),
\* d.metadata) succeeds and returns b byte for byte, count = 0 included.
C10_ReverseRoundTrip ==
    (flow = "extract" /\ pc \in {"done", "failed"} /\ Canonical(binfile)) =>
        pc = "done" /\ payload = Some(binfile)
\* C10 witness: a canonical buffer of two slots, one of them full, is
\* returned byte for byte
C10_ReverseRoundTripReached ==
    /\ flow = "extract" /\ pc = "done" /\ Canonical(binfile)
    /\ DeclaredCount(binfile) = 2 /\ payload = Some(binfile)
    /\ TextLen(SlotAt(binfile, 1)) = 10 /\ TextLen(SlotAt(binfile, 2)) = 260

====
